---- MODULE Spec2Model ----
(***************************************************************************)
(* SecretFactory of kmip/core/factories/secrets.py: create(secret_type,    *)
(* value) and the builders it calls, _build_key_block and                  *)
(* _build_key_wrapping_data.                                               *)
(*                                                                         *)
(* Python values are records carrying their type, so that type(x),         *)
(* isinstance(x, T), "x is None" and truthiness are computed as Python     *)
(* computes them.  A call ends by returning a value or by raising; both    *)
(* are outcomes, and an outcome lists the factory methods the call ran.    *)
(***************************************************************************)
EXTENDS Integers, Sequences, FiniteSets, TLC

VARIABLES
    self,         \* the SecretFactory instance (its three fields)
    secret_type,  \* first argument of the current create call
    value,        \* the caller's config object, as it is after the call
    arg,          \* the config as the caller passed it
    result,       \* outcome of the current call, NoOutcome before it ran
    pc,           \* "call": create is about to run, "done": it has ended
    memo          \* an earlier call, remembered: [secret_type, value, result]

vars == <<self, secret_type, value, arg, result, pc, memo>>

(***************************************************************************)
(* Python values                                                           *)
(***************************************************************************)
None == [type |-> "NoneType"]

PyInt(n) == [type |-> "int", v |-> n]

PyStr(s) == [type |-> "str", v |-> s]

PyBytes(b) == [type |-> "bytes", v |-> b]

PyList(s) == [type |-> "list", items |-> s]

PyDict(f) == [type |-> "dict", items |-> f]

EnumMember(cls, name) == [type |-> cls, name |-> name]

\* type(x)
TypeOf(x) == x.type

\* bool(x): None, 0, "", b"", [] and {} are falsy, everything else truthy
Truthy(x) ==
    CASE x.type = "NoneType" -> FALSE
      [] x.type = "dict" -> DOMAIN x.items # {}
      [] x.type = "list" -> Len(x.items) > 0
      [] x.type = "int" -> x.v # 0
      [] x.type = "str" -> x.v # ""
      [] x.type = "bytes" -> Len(x.v) > 0
      [] OTHER -> TRUE

\* key in d
Has(d, key) == key \in DOMAIN d.items

\* d.get(key)
Get(d, key) == IF key \in DOMAIN d.items THEN d.items[key] ELSE None

(***************************************************************************)
(* Outcomes of a call                                                      *)
(***************************************************************************)
Return(v) == [status |-> "return", value |-> v, error |-> None, calls |-> <<>>]

Raise(e) == [status |-> "raise", value |-> None, error |-> e, calls |-> <<>>]

NoOutcome == [status |-> "none", value |-> None, error |-> None, calls |-> <<>>]

\* the outcome r of the body of factory method name
Method(name, r) == [r EXCEPT !.calls = <<name>> \o @]

\* the outcome r, reached after the call that ended with outcome before
After(before, r) == [r EXCEPT !.calls = before.calls \o @]

Exception(class, msg) == [type |-> "exception", class |-> class, msg |-> msg]

\* x.get(...) where x is no mapping
NoGetAttribute(x) ==
    Raise(Exception("AttributeError", [object |-> TypeOf(x), attribute |-> "get"]))

(***************************************************************************)
(* Collaborators: kmip.core.enums, attributes, misc, objects, secrets,     *)
(* errors, utils.  Each constructor validates its raw value.               *)
(***************************************************************************)
ObjectType(name) == EnumMember("ObjectType", name)

ObjectTypeNames ==
    {"CERTIFICATE", "SYMMETRIC_KEY", "PUBLIC_KEY", "PRIVATE_KEY", "SPLIT_KEY",
     "TEMPLATE", "SECRET_DATA", "OPAQUE_DATA"}

SecretKinds == { ObjectType(n) : n \in ObjectTypeNames }

\* a required enumeration field: absent fails, a non-member fails
RequiredEnum(cls, enum, field, raw) ==
    IF raw = None THEN Raise(Exception("MissingField", [field |-> field]))
    ELSE IF TypeOf(raw) # enum
         THEN Raise(Exception("InvalidEnumValue", [field |-> field, received |-> raw]))
         ELSE Return([type |-> cls, value |-> raw])

\* an optional enumeration field: None gives the wrapper with no value
OptionalEnum(cls, enum, field, raw) ==
    IF raw # None /\ TypeOf(raw) # enum
    THEN Raise(Exception("InvalidEnumValue", [field |-> field, received |-> raw]))
    ELSE Return([type |-> cls, value |-> raw])

KeyFormatType(raw) ==
    RequiredEnum("KeyFormatType", "KeyFormatTypeEnum", "key_format_type", raw)

KeyCompressionType(raw) ==
    OptionalEnum("KeyCompressionType", "KeyCompressionTypeEnum",
                 "key_compression_type", raw)

KeyMaterial(raw) ==
    IF raw = None THEN Raise(Exception("MissingField", [field |-> "key_value"]))
    ELSE Return([type |-> "KeyMaterial", value |-> raw])

KeyValue(key_material) == [type |-> "KeyValue", key_material |-> key_material]

CryptographicAlgorithm(raw) ==
    OptionalEnum("CryptographicAlgorithm", "CryptographicAlgorithmEnum",
                 "cryptographic_algorithm", raw)

CryptographicLength(raw) == [type |-> "CryptographicLength", value |-> raw]

WrappingMethod(raw) ==
    RequiredEnum("WrappingMethod", "WrappingMethodEnum", "wrap_method", raw)

EncodingOption(raw) ==
    OptionalEnum("EncodingOption", "EncodingOptionEnum", "encoding_option", raw)

UniqueIdentifier(raw) == [type |-> "UniqueIdentifier", value |-> raw]

EncryptionKeyInformation(unique_identifier) ==
    [type |-> "EncryptionKeyInformation",
     unique_identifier |-> unique_identifier,
     cryptographic_parameters |-> None]

MACSignatureKeyInformation(unique_identifier) ==
    [type |-> "MACSignatureKeyInformation",
     unique_identifier |-> unique_identifier,
     cryptographic_parameters |-> None]

KeyWrappingData(wrapping_method, encryption_key_information, mac_signature_key_information, mac_signature, iv_counter_nonce, encoding_option) ==
    [type |-> "KeyWrappingData",
     wrapping_method |-> wrapping_method,
     encryption_key_information |-> encryption_key_information,
     mac_signature_key_information |-> mac_signature_key_information,
     mac_signature |-> mac_signature,
     iv_counter_nonce |-> iv_counter_nonce,
     encoding_option |-> encoding_option]

KeyBlock(key_format_type, key_compression_type, key_value, cryptographic_algorithm, cryptographic_length, key_wrapping_data) ==
    [type |-> "KeyBlock",
     key_format_type |-> key_format_type,
     key_compression_type |-> key_compression_type,
     key_value |-> key_value,
     cryptographic_algorithm |-> cryptographic_algorithm,
     cryptographic_length |-> cryptographic_length,
     key_wrapping_data |-> key_wrapping_data]

SecretDataType(raw) ==
    RequiredEnum("SecretDataType", "SecretDataTypeEnum", "secret_data_type", raw)

OpaqueDataType(raw) ==
    RequiredEnum("OpaqueDataType", "OpaqueDataTypeEnum", "opaque_data_type", raw)

OpaqueDataValue(raw) ==
    IF raw = None THEN Raise(Exception("MissingField", [field |-> "opaque_data_value"]))
    ELSE Return([type |-> "OpaqueDataValue", value |-> raw])

Certificate == [type |-> "Certificate"]

SymmetricKey(key_block) == [type |-> "SymmetricKey", key_block |-> key_block]

PublicKey(key_block) == [type |-> "PublicKey", key_block |-> key_block]

PrivateKey(key_block) == [type |-> "PrivateKey", key_block |-> key_block]

Template(attributes) == [type |-> "Template", attributes |-> attributes]

SecretData(secret_data_type, key_block) ==
    [type |-> "SecretData", secret_data_type |-> secret_data_type,
     key_block |-> key_block]

OpaqueObject(opaque_data_type, opaque_data_value) ==
    [type |-> "OpaqueObject", opaque_data_type |-> opaque_data_type,
     opaque_data_value |-> opaque_data_value]

KeyFactory == [type |-> "KeyFactory"]

BAD_EXP_RECV == PyStr("Bad {0} {1}: expected {2}, received {3}")

\* utils.build_er_error(class_object, descriptor, expected, received)
build_er_error(class_object, descriptor, expected, received) ==
    [class_object |-> class_object, descriptor |-> descriptor,
     expected |-> expected, received |-> received]

(***************************************************************************)
(* SecretFactory                                                           *)
(***************************************************************************)
\* the instance __init__ builds
InitFactory ==
    [key_factory |-> KeyFactory,
     base_error |-> BAD_EXP_RECV,
     template_input |-> PyStr("Bad Template {0}: expected {1}, received {2}")]

\* a wrapping builder that tests the wrong key before building mac_key_info
_build_key_wrapping_data_wrong_key(wrap_data) ==
    Method("_build_key_wrapping_data",
      IF TypeOf(wrap_data) # "dict" THEN NoGetAttribute(wrap_data) ELSE
      LET wrapping_method == WrappingMethod(Get(wrap_data, "wrap_method"))
          enc_key_info ==
              IF Has(wrap_data, "encryption_key_uuid")
              THEN EncryptionKeyInformation(
                       UniqueIdentifier(Get(wrap_data, "encryption_key_uuid")))
              ELSE None
          mac_key_info ==
              IF Has(wrap_data, "encryption_key_uuid")
              THEN MACSignatureKeyInformation(
                       UniqueIdentifier(Get(wrap_data, "mac_key_uuid")))
              ELSE None
          mac_signature == Get(wrap_data, "mac_signature")
          iv_nonce == Get(wrap_data, "iv_counter_nonce")
          encoding_option ==
              IF Has(wrap_data, "encoding_option")
              THEN EncodingOption(Get(wrap_data, "encoding_option"))
              ELSE Return(None)
      IN  IF wrapping_method.status = "raise" THEN wrapping_method
          ELSE IF encoding_option.status = "raise" THEN encoding_option
          ELSE Return(KeyWrappingData(wrapping_method.value, enc_key_info,
                                      mac_key_info, mac_signature, iv_nonce,
                                      encoding_option.value)))

_build_key_wrapping_data(wrap_data) ==
    Method("_build_key_wrapping_data",
      IF TypeOf(wrap_data) # "dict" THEN NoGetAttribute(wrap_data) ELSE
      LET wrapping_method == WrappingMethod(Get(wrap_data, "wrap_method"))
          enc_key_info ==
              IF Has(wrap_data, "encryption_key_uuid")
              THEN EncryptionKeyInformation(
                       UniqueIdentifier(Get(wrap_data, "encryption_key_uuid")))
              ELSE None
          mac_key_info ==
              IF Has(wrap_data, "mac_key_uuid")
              THEN MACSignatureKeyInformation(
                       UniqueIdentifier(Get(wrap_data, "mac_key_uuid")))
              ELSE None
          mac_signature == Get(wrap_data, "mac_signature")
          iv_nonce == Get(wrap_data, "iv_counter_nonce")
          encoding_option ==
              IF Has(wrap_data, "encoding_option")
              THEN EncodingOption(Get(wrap_data, "encoding_option"))
              ELSE Return(None)
      IN  IF wrapping_method.status = "raise" THEN wrapping_method
          ELSE IF encoding_option.status = "raise" THEN encoding_option
          ELSE Return(KeyWrappingData(wrapping_method.value, enc_key_info,
                                      mac_key_info, mac_signature, iv_nonce,
                                      encoding_option.value)))

\* a key-block builder that guards key_format_type the way it guards
\* key_compression_type, and so builds a block with no format
_build_key_block_guarded_format(value_) ==
    Method("_build_key_block",
      IF TypeOf(value_) # "dict" THEN NoGetAttribute(value_) ELSE
      LET key_type == Get(value_, "key_format_type")
          key_compression_type == Get(value_, "key_compression_type")
          key_value == Get(value_, "key_value")
          cryptographic_algorithm == Get(value_, "cryptographic_algorithm")
          cryptographic_length == Get(value_, "cryptographic_length")
          key_wrapping_data == Get(value_, "key_wrapping_data")
          key_format_type ==
              IF key_type # None THEN KeyFormatType(key_type) ELSE Return(None)
          key_comp_type ==
              IF key_compression_type # None
              THEN KeyCompressionType(key_compression_type)
              ELSE Return(None)
          key_material == KeyMaterial(key_value)
          crypto_algorithm == CryptographicAlgorithm(cryptographic_algorithm)
          crypto_length == CryptographicLength(cryptographic_length)
          key_wrap_data ==
              IF key_wrapping_data # None
              THEN _build_key_wrapping_data(key_wrapping_data)
              ELSE Return(None)
      IN  IF key_format_type.status = "raise" THEN key_format_type
          ELSE IF key_comp_type.status = "raise" THEN key_comp_type
          ELSE IF key_material.status = "raise" THEN key_material
          ELSE IF crypto_algorithm.status = "raise" THEN crypto_algorithm
          ELSE IF key_wrap_data.status = "raise" THEN key_wrap_data
          ELSE After(key_wrap_data,
                     Return(KeyBlock(key_format_type.value, key_comp_type.value,
                                     KeyValue(key_material.value),
                                     crypto_algorithm.value, crypto_length,
                                     key_wrap_data.value))))

_build_key_block(value_) ==
    Method("_build_key_block",
      IF TypeOf(value_) # "dict" THEN NoGetAttribute(value_) ELSE
      LET key_type == Get(value_, "key_format_type")
          key_compression_type == Get(value_, "key_compression_type")
          key_value == Get(value_, "key_value")
          cryptographic_algorithm == Get(value_, "cryptographic_algorithm")
          cryptographic_length == Get(value_, "cryptographic_length")
          key_wrapping_data == Get(value_, "key_wrapping_data")
          key_format_type == KeyFormatType(key_type)
          key_comp_type ==
              IF key_compression_type # None
              THEN KeyCompressionType(key_compression_type)
              ELSE Return(None)
          key_material == KeyMaterial(key_value)
          crypto_algorithm == CryptographicAlgorithm(cryptographic_algorithm)
          crypto_length == CryptographicLength(cryptographic_length)
          key_wrap_data ==
              IF key_wrapping_data # None
              THEN _build_key_wrapping_data(key_wrapping_data)
              ELSE Return(None)
      IN  IF key_format_type.status = "raise" THEN key_format_type
          ELSE IF key_comp_type.status = "raise" THEN key_comp_type
          ELSE IF key_material.status = "raise" THEN key_material
          ELSE IF crypto_algorithm.status = "raise" THEN crypto_algorithm
          ELSE IF key_wrap_data.status = "raise" THEN key_wrap_data
          ELSE After(key_wrap_data,
                     Return(KeyBlock(key_format_type.value, key_comp_type.value,
                                     KeyValue(key_material.value),
                                     crypto_algorithm.value, crypto_length,
                                     key_wrap_data.value))))

_create_certificate == Method("_create_certificate", Return(Certificate))

\* a _create_symmetric_key that tests "if not value" instead of "is None"
_create_symmetric_key_falsy(value_) ==
    Method("_create_symmetric_key",
      IF ~Truthy(value_) THEN Return(SymmetricKey(None))
      ELSE LET key_block == _build_key_block(value_)
           IN  IF key_block.status = "raise" THEN key_block
               ELSE After(key_block, Return(SymmetricKey(key_block.value))))

_create_symmetric_key(value_) ==
    Method("_create_symmetric_key",
      IF value_ = None THEN Return(SymmetricKey(None))
      ELSE LET key_block == _build_key_block(value_)
           IN  IF key_block.status = "raise" THEN key_block
               ELSE After(key_block, Return(SymmetricKey(key_block.value))))

_create_public_key(value_) ==
    Method("_create_public_key",
      IF value_ = None THEN Return(PublicKey(None))
      ELSE LET key_block == _build_key_block(value_)
           IN  IF key_block.status = "raise" THEN key_block
               ELSE After(key_block, Return(PublicKey(key_block.value))))

_create_private_key(value_) ==
    Method("_create_private_key",
      IF value_ = None THEN Return(PrivateKey(None))
      ELSE LET key_block == _build_key_block(value_)
           IN  IF key_block.status = "raise" THEN key_block
               ELSE After(key_block, Return(PrivateKey(key_block.value))))

\* a _create_split_key that answers a call without config as the other
\* kinds do, with a placeholder
_create_split_key_placeholder(value_) ==
    Method("_create_split_key",
      IF value_ = None THEN Return([type |-> "SplitKey", key_block |-> None])
      ELSE Raise(Exception("NotImplementedError", None)))

_create_split_key(value_) ==
    Method("_create_split_key", Raise(Exception("NotImplementedError", None)))

\* the index of the first element of the list that is no Attribute, 0 if none
FirstNonAttribute(items) ==
    IF \A i \in 1..Len(items) : TypeOf(items[i]) = "Attribute" THEN 0
    ELSE CHOOSE i \in 1..Len(items) :
             /\ TypeOf(items[i]) # "Attribute"
             /\ \A j \in 1..(i - 1) : TypeOf(items[j]) = "Attribute"

\* a _create_template that lacks the "is None" test
_create_template_no_none_test(value_) ==
    Method("_create_template",
      IF TypeOf(value_) # "list"
      THEN Raise(Exception("TypeError",
                 build_er_error("Template", "constructor argument type",
                                "list", TypeOf(value_))))
      ELSE LET bad == FirstNonAttribute(value_.items)
           IN  IF bad # 0
               THEN Raise(Exception("TypeError",
                          build_er_error("Template", "constructor argument type",
                                         "Attribute", TypeOf(value_.items[bad]))))
               ELSE Return(Template(value_)))

\* a _create_template that looks at the first element only
_create_template_first_only(value_) ==
    Method("_create_template",
      IF value_ = None THEN Return(Template(None))
      ELSE IF TypeOf(value_) # "list"
      THEN Raise(Exception("TypeError",
                 build_er_error("Template", "constructor argument type",
                                "list", TypeOf(value_))))
      ELSE IF Len(value_.items) > 0 /\ TypeOf(value_.items[1]) # "Attribute"
           THEN Raise(Exception("TypeError",
                      build_er_error("Template", "constructor argument type",
                                     "Attribute", TypeOf(value_.items[1]))))
           ELSE Return(Template(value_)))

_create_template(value_) ==
    Method("_create_template",
      IF value_ = None THEN Return(Template(None))
      ELSE IF TypeOf(value_) # "list"
      THEN Raise(Exception("TypeError",
                 build_er_error("Template", "constructor argument type",
                                "list", TypeOf(value_))))
      ELSE LET bad == FirstNonAttribute(value_.items)
           IN  IF bad # 0
               THEN Raise(Exception("TypeError",
                          build_er_error("Template", "constructor argument type",
                                         "Attribute", TypeOf(value_.items[bad]))))
               ELSE Return(Template(value_)))

\* a _create_secret_data that tests "is not None" instead of truthiness
_create_secret_data_not_none(value_) ==
    Method("_create_secret_data",
      IF value_ # None
      THEN IF TypeOf(value_) # "dict" THEN NoGetAttribute(value_) ELSE
           LET kind == SecretDataType(Get(value_, "secret_data_type"))
               key_block == _build_key_block(value_)
           IN  IF kind.status = "raise" THEN kind
               ELSE IF key_block.status = "raise" THEN key_block
               ELSE After(key_block,
                          Return(SecretData(kind.value, key_block.value)))
      ELSE Return(SecretData(None, None)))

_create_secret_data(value_) ==
    Method("_create_secret_data",
      IF Truthy(value_)
      THEN IF TypeOf(value_) # "dict" THEN NoGetAttribute(value_) ELSE
           LET kind == SecretDataType(Get(value_, "secret_data_type"))
               key_block == _build_key_block(value_)
           IN  IF kind.status = "raise" THEN kind
               ELSE IF key_block.status = "raise" THEN key_block
               ELSE After(key_block,
                          Return(SecretData(kind.value, key_block.value)))
      ELSE Return(SecretData(None, None)))

_create_opaque_data(value_) ==
    Method("_create_opaque_data",
      IF Truthy(value_)
      THEN IF TypeOf(value_) # "dict" THEN NoGetAttribute(value_) ELSE
           LET kind == OpaqueDataType(Get(value_, "opaque_data_type"))
               data == OpaqueDataValue(Get(value_, "opaque_data_value"))
           IN  IF kind.status = "raise" THEN kind
               ELSE IF data.status = "raise" THEN data
               ELSE Return(OpaqueObject(kind.value, data.value))
      ELSE Return(OpaqueObject(None, None)))

\* the if/elif chain of create; "is" compares identities, so only the
\* members of ObjectType themselves select a branch
create_dispatch(secret_type_, value_) ==
    IF secret_type_ = ObjectType("CERTIFICATE") THEN _create_certificate
    ELSE IF secret_type_ = ObjectType("SYMMETRIC_KEY")
         THEN _create_symmetric_key(value_)
    ELSE IF secret_type_ = ObjectType("PUBLIC_KEY")
         THEN _create_public_key(value_)
    ELSE IF secret_type_ = ObjectType("PRIVATE_KEY")
         THEN _create_private_key(value_)
    ELSE IF secret_type_ = ObjectType("SPLIT_KEY")
         THEN _create_split_key(value_)
    ELSE IF secret_type_ = ObjectType("TEMPLATE")
         THEN _create_template(value_)
    ELSE IF secret_type_ = ObjectType("SECRET_DATA")
         THEN _create_secret_data(value_)
    ELSE IF secret_type_ = ObjectType("OPAQUE_DATA")
         THEN _create_opaque_data(value_)
    ELSE Raise(Exception("TypeError",
               [text |-> "Unrecognized secret type: {0}",
                secret_type |-> secret_type_]))

\* a create that lacks the final else: an unrecognized kind returns None
create_no_else(self_, secret_type_, value_) ==
    [self |-> self_,
     value |-> value_,
     outcome |->
       Method("create",
         IF secret_type_ \in SecretKinds
         THEN create_dispatch(secret_type_, value_)
         ELSE Return(None))]

\* a create that keeps the last config on the instance and, once one is kept,
\* answers from it
create_caching(self_, secret_type_, value_) ==
    [self |-> [self_ EXCEPT !.key_factory = value_],
     value |-> value_,
     outcome |->
       Method("create",
         create_dispatch(secret_type_,
                         IF self_.key_factory = KeyFactory THEN value_
                         ELSE self_.key_factory))]

\* the outcome of create(secret_type, value), with the instance and the
\* caller's config as the call leaves them: no statement of create or of the
\* methods it calls assigns to self or stores into value
create(self_, secret_type_, value_) ==
    [self |-> self_,
     value |-> value_,
     outcome |-> Method("create", create_dispatch(secret_type_, value_))]

(***************************************************************************)
(* The calls that are made: kinds and configs                              *)
(***************************************************************************)
\* longest list handed to create(TEMPLATE, ...)
MaxTemplateLen == 2

Absent == [type |-> "absent"]

\* the dict holding the fields of r that are not Absent
MkDict(r) == PyDict([k \in {f \in DOMAIN r : r[f] # Absent} |-> r[k]])

\* a raw value no enumeration has as a member
Bogus == PyStr("bogus")

RAW == EnumMember("KeyFormatTypeEnum", "RAW")

AES == EnumMember("CryptographicAlgorithmEnum", "AES")

ENCRYPT == EnumMember("WrappingMethodEnum", "ENCRYPT")

PASSWORD == EnumMember("SecretDataTypeEnum", "PASSWORD")

\* the wrapping configs: each key is absent or carries a value (get reads a
\* key mapped to None as it reads an absent key)
WrapConfigs ==
    { MkDict(r) : r \in
        [wrap_method : {Absent, ENCRYPT, Bogus},
         encryption_key_uuid : {Absent, PyStr("id-1")},
         mac_key_uuid : {Absent, PyStr("id-2")},
         mac_signature : {Absent, PyBytes(<<5>>)},
         iv_counter_nonce : {Absent, PyBytes(<<7, 7>>)},
         encoding_option :
             {Absent, EnumMember("EncodingOptionEnum", "NO_ENCODING"), Bogus}] }

KeyFields ==
    [key_format_type : {Absent, RAW, Bogus},
     key_compression_type :
         {Absent, EnumMember("KeyCompressionTypeEnum", "EC_PUBLIC_KEY_TYPE_UNCOMPRESSED"),
          Bogus},
     key_value : {Absent, PyBytes(<<1, 2, 3>>)},
     cryptographic_algorithm : {Absent, AES, Bogus},
     cryptographic_length : {Absent, PyInt(256)},
     key_wrapping_data : {Absent} \cup WrapConfigs]

KeyConfigs == { MkDict(r) : r \in KeyFields }

SecretDataConfigs ==
    { MkDict(r) : r \in
        [secret_data_type : {Absent, PASSWORD, Bogus},
         key_format_type : {Absent, RAW, Bogus},
         key_value : {Absent, PyBytes(<<9>>)},
         cryptographic_algorithm : {Absent, AES},
         cryptographic_length : {Absent, PyInt(256)},
         key_wrapping_data : {Absent} \cup WrapConfigs] }

OpaqueConfigs ==
    { MkDict(r) : r \in
        [opaque_data_type : {Absent, EnumMember("OpaqueDataTypeEnum", "NONE"), Bogus},
         opaque_data_value : {Absent, PyBytes(<<4, 2>>)}] }

Attribute(name, v) == [type |-> "Attribute", attribute_name |-> name, attribute_value |-> v]

attr_a == Attribute("Name", PyStr("key-1"))

attr_b == Attribute("Cryptographic Length", PyInt(256))

TemplateElements == {attr_a, attr_b, PyInt(42), PyStr("x")}

TemplateLists ==
    { PyList(s) : s \in UNION { [1..n -> TemplateElements] : n \in 0..MaxTemplateLen } }

WellFormedKeyConfig ==
    MkDict([key_format_type |-> RAW, key_value |-> PyBytes(<<1, 2, 3>>),
            cryptographic_algorithm |-> AES, cryptographic_length |-> PyInt(256)])

MalformedKeyConfig == MkDict([key_format_type |-> Bogus])

\* configs of every shape: absent, falsy, mappings, lists, scalars
SampleConfigs ==
    {None, PyDict(<<>>), WellFormedKeyConfig, MalformedKeyConfig,
     PyStr("not-a-list"), PyStr(""), PyInt(0), PyInt(42)}
    \cup TemplateLists \cup OpaqueConfigs

\* values that are no member of ObjectType: a raw number, the number of a
\* member, a member of another enumeration, None
OtherKinds == {PyInt(99999), PyInt(2), RAW, None}

KeyKinds == {ObjectType("SYMMETRIC_KEY"), ObjectType("PUBLIC_KEY"), ObjectType("PRIVATE_KEY")}

Inputs ==
    ((SecretKinds \cup OtherKinds) \X SampleConfigs)
    \cup (KeyKinds \X KeyConfigs)
    \cup ({ObjectType("SECRET_DATA")} \X SecretDataConfigs)

(***************************************************************************)
(* One call: Init draws the arguments, Create runs create on them          *)
(***************************************************************************)
NoMemo == [secret_type |-> None, value |-> None, result |-> NoOutcome]

Init ==
    /\ self = InitFactory
    /\ \E in \in Inputs : secret_type = in[1] /\ value = in[2] /\ arg = in[2]
    /\ result = NoOutcome
    /\ pc = "call"
    /\ memo = NoMemo

Create ==
    /\ pc = "call"
    /\ LET r == create(self, secret_type, value)
       IN  /\ self' = r.self
           /\ value' = r.value
           /\ result' = r.outcome
    /\ pc' = "done"
    /\ UNCHANGED <<secret_type, arg, memo>>

Next == Create

Spec == Init /\ [][Next]_vars

(***************************************************************************)
(* Many calls on one factory: after a call ends the caller makes another,  *)
(* and may remember the call that just ended                               *)
(***************************************************************************)
WrappedKeyConfig ==
    MkDict([key_format_type |-> RAW, key_value |-> PyBytes(<<1, 2, 3>>),
            key_wrapping_data |->
                MkDict([wrap_method |-> ENCRYPT,
                        encryption_key_uuid |-> PyStr("id-1"),
                        iv_counter_nonce |-> PyBytes(<<7, 7>>)])])

SecretDataConfig ==
    MkDict([secret_data_type |-> PASSWORD, key_format_type |-> RAW,
            key_value |-> PyBytes(<<9>>)])

OpaqueConfig ==
    MkDict([opaque_data_type |-> EnumMember("OpaqueDataTypeEnum", "NONE"),
            opaque_data_value |-> PyBytes(<<4, 2>>)])

ReplayConfigs ==
    {None, PyDict(<<>>), WellFormedKeyConfig, MalformedKeyConfig, WrappedKeyConfig,
     SecretDataConfig, OpaqueConfig, PyStr("not-a-list"),
     PyList(<<attr_a, attr_b>>), PyList(<<attr_a, PyInt(42)>>)}

ReplayInputs == (SecretKinds \cup {PyInt(99999)}) \X ReplayConfigs

InitRepeat ==
    /\ self = InitFactory
    /\ \E in \in ReplayInputs : secret_type = in[1] /\ value = in[2] /\ arg = in[2]
    /\ result = NoOutcome
    /\ pc = "call"
    /\ memo = NoMemo

\* the caller goes on to the next call
Again ==
    /\ pc = "done"
    /\ \E in \in ReplayInputs : secret_type' = in[1] /\ value' = in[2] /\ arg' = in[2]
    /\ result' = NoOutcome
    /\ pc' = "call"
    /\ UNCHANGED <<self, memo>>

\* the caller notes the call that ended and what came of it
Remember ==
    /\ pc = "done"
    /\ memo' = [secret_type |-> secret_type, value |-> arg, result |-> result]
    /\ UNCHANGED <<self, secret_type, value, arg, result, pc>>

NextRepeat == Create \/ Again \/ Remember

SpecRepeat == InitRepeat /\ [][NextRepeat]_vars

(***************************************************************************)
(* Properties                                                              *)
(***************************************************************************)
Done == pc = "done"

Returned == result.status = "return"

Raised(class) == result.status = "raise" /\ result.error.class = class

Ran(name) == \E i \in 1..Len(result.calls) : result.calls[i] = name

IsDict(x) == TypeOf(x) = "dict"

\* the kinds whose secret carries a key block
KeyBlockKinds == KeyKinds \cup {ObjectType("SECRET_DATA")}

\* C1: create(k, None) returns, for each of the seven kinds other than
\* SPLIT_KEY, the placeholder of that kind: no key block, no attributes, no
\* sub-kind, and the key-block builder is not run.
C1_NoneGivesPlaceholder ==
    (Done /\ arg = None /\ secret_type \in SecretKinds \ {ObjectType("SPLIT_KEY")}) =>
        /\ Returned
        /\ ~Ran("_build_key_block")
        /\ CASE secret_type = ObjectType("CERTIFICATE") ->
                    result.value = [type |-> "Certificate"]
             [] secret_type = ObjectType("SYMMETRIC_KEY") ->
                    result.value = [type |-> "SymmetricKey", key_block |-> None]
             [] secret_type = ObjectType("PUBLIC_KEY") ->
                    result.value = [type |-> "PublicKey", key_block |-> None]
             [] secret_type = ObjectType("PRIVATE_KEY") ->
                    result.value = [type |-> "PrivateKey", key_block |-> None]
             [] secret_type = ObjectType("TEMPLATE") ->
                    result.value = [type |-> "Template", attributes |-> None]
             [] secret_type = ObjectType("SECRET_DATA") ->
                    result.value = [type |-> "SecretData", secret_data_type |-> None,
                                    key_block |-> None]
             [] secret_type = ObjectType("OPAQUE_DATA") ->
                    result.value = [type |-> "OpaqueObject", opaque_data_type |-> None,
                                    opaque_data_value |-> None]

C1_Witness ==
    /\ Done /\ arg = None /\ secret_type = ObjectType("TEMPLATE")
    /\ Returned /\ result.value.attributes = None

\* C2 as stated: for SYMMETRIC_KEY, PUBLIC_KEY and PRIVATE_KEY a config that
\* is None or the empty mapping gives the bare secret without running the
\* key-block builder, and only a non-empty config reaches the builder.
C2_AbsentOrEmptyGivesBare ==
    (Done /\ secret_type \in KeyKinds) =>
        IF arg = None \/ arg = PyDict(<<>>)
        THEN Returned /\ result.value.key_block = None /\ ~Ran("_build_key_block")
        ELSE Ran("_build_key_block")

\* C2 amended: for SYMMETRIC_KEY, PUBLIC_KEY and PRIVATE_KEY only the config
\* None gives the bare secret without running the key-block builder; every
\* other config, the empty mapping included, is handed to the builder, whose
\* key block is attached to the returned secret and whose failure is the
\* failure of the call.
C2_OnlyNoneGivesBare ==
    (Done /\ secret_type \in KeyKinds) =>
        IF arg = None
        THEN Returned /\ result.value.key_block = None /\ ~Ran("_build_key_block")
        ELSE /\ Len(result.calls) >= 3 /\ result.calls[3] = "_build_key_block"
             /\ LET built == _build_key_block(arg)
                IN  IF built.status = "return"
                    THEN Returned /\ result.value.key_block = built.value
                    ELSE result.status = "raise" /\ result.error = built.error

C2_Witness ==
    /\ Done /\ secret_type = ObjectType("PUBLIC_KEY") /\ arg = PyDict(<<>>)
    /\ Ran("_build_key_block") /\ Raised("MissingField")

\* C3: create(SPLIT_KEY, config) raises NotImplementedError whatever the
\* config is, returns nothing and runs no builder on the config.
C3_SplitKeyUnsupported ==
    (Done /\ secret_type = ObjectType("SPLIT_KEY")) =>
        /\ Raised("NotImplementedError")
        /\ result.value = None
        /\ result.calls = <<"create", "_create_split_key">>

C3_Witness ==
    /\ Done /\ secret_type = ObjectType("SPLIT_KEY") /\ arg = None
    /\ Raised("NotImplementedError")

\* C4: a kind that is no member of ObjectType makes create raise TypeError
\* naming that value, whatever the config is and before any method looks at
\* the config; the error is not the NotImplementedError of SPLIT_KEY.
C4_UnknownKindUnsupportedType ==
    (Done /\ secret_type \notin SecretKinds) =>
        /\ Raised("TypeError")
        /\ result.error.msg.secret_type = secret_type
        /\ result.calls = <<"create">>
        /\ result.error.class # "NotImplementedError"

C4_Witness ==
    /\ Done /\ secret_type = PyInt(99999) /\ arg = MalformedKeyConfig
    /\ Raised("TypeError") /\ result.error.msg.secret_type = PyInt(99999)

\* C5: create(TEMPLATE, v) with v present returns a Template holding v, same
\* elements in the same order, exactly when v is a list of Attributes;
\* otherwise it raises TypeError, reporting the type of v when v is no list
\* and the type of the first element that is no Attribute when v is a list.
C5_TemplateTypeChecked ==
    (Done /\ secret_type = ObjectType("TEMPLATE") /\ arg # None) =>
        IF TypeOf(arg) = "list"
           /\ \A i \in 1..Len(arg.items) : TypeOf(arg.items[i]) = "Attribute"
        THEN /\ Returned
             /\ TypeOf(result.value) = "Template"
             /\ result.value.attributes.items = arg.items
        ELSE /\ Raised("TypeError")
             /\ result.value = None
             /\ IF TypeOf(arg) # "list"
                THEN /\ result.error.msg.expected = "list"
                     /\ result.error.msg.received = TypeOf(arg)
                ELSE /\ result.error.msg.expected = "Attribute"
                     /\ \E i \in 1..Len(arg.items) :
                            /\ TypeOf(arg.items[i]) # "Attribute"
                            /\ \A j \in 1..(i - 1) : TypeOf(arg.items[j]) = "Attribute"
                            /\ result.error.msg.received = TypeOf(arg.items[i])

C5_Witness ==
    /\ Done /\ secret_type = ObjectType("TEMPLATE")
    /\ arg = PyList(<<attr_a, PyInt(42)>>)
    /\ Raised("TypeError") /\ result.error.msg.received = "int"

\* C6: create(SECRET_DATA, c) and create(OPAQUE_DATA, c) return the empty
\* placeholder exactly when c is falsy; a secret returned for a truthy c
\* carries the sub-kind made from secret_data_type, with the key block of
\* the other fields, or from opaque_data_type, with the value of
\* opaque_data_value; a truthy c without the sub-kind field makes the call
\* raise.
C6_SubKindRequired ==
    /\ (Done /\ secret_type = ObjectType("SECRET_DATA")) =>
         IF ~Truthy(arg)
         THEN Returned /\ result.value = SecretData(None, None)
         ELSE /\ result.status \in {"return", "raise"}
              /\ Returned =>
                   /\ IsDict(arg) /\ Has(arg, "secret_data_type")
                   /\ result.value.secret_data_type # None
                   /\ result.value.secret_data_type.value = arg.items["secret_data_type"]
                   /\ result.value.key_block # None
                   /\ result.value.key_block.key_value.key_material.value
                          = Get(arg, "key_value")
                   /\ result.value.key_block.key_format_type.value
                          = Get(arg, "key_format_type")
              /\ (~IsDict(arg) \/ ~Has(arg, "secret_data_type")) =>
                   result.status = "raise" /\ result.value = None
    /\ (Done /\ secret_type = ObjectType("OPAQUE_DATA")) =>
         IF ~Truthy(arg)
         THEN Returned /\ result.value = OpaqueObject(None, None)
         ELSE /\ result.status \in {"return", "raise"}
              /\ Returned =>
                   /\ IsDict(arg) /\ Has(arg, "opaque_data_type")
                   /\ result.value.opaque_data_type # None
                   /\ result.value.opaque_data_type.value = arg.items["opaque_data_type"]
                   /\ result.value.opaque_data_value.value = Get(arg, "opaque_data_value")
              /\ (~IsDict(arg) \/ ~Has(arg, "opaque_data_type")) =>
                   result.status = "raise" /\ result.value = None

C6_Witness ==
    /\ Done /\ secret_type = ObjectType("SECRET_DATA")
    /\ arg = MkDict([key_format_type |-> RAW, key_value |-> PyBytes(<<9>>)])
    /\ Raised("MissingField") /\ result.error.msg.field = "secret_data_type"

\* the key block of the returned secret, None when it has none
BuiltKeyBlock ==
    IF Done /\ Returned /\ secret_type \in KeyBlockKinds
    THEN result.value.key_block
    ELSE None

\* C7 as stated: the key block's format type, key bytes, algorithm and length
\* are the config's key_format_type, key_value, cryptographic_algorithm and
\* cryptographic_length, and compression type, algorithm and length are
\* unset, with no wrapper in their place, when the config omits their key.
C7_KeyBlockRoundTrip ==
    BuiltKeyBlock # None =>
        LET kb == BuiltKeyBlock
        IN  /\ kb.key_format_type.value = Get(arg, "key_format_type")
            /\ kb.key_value.key_material.value = Get(arg, "key_value")
            /\ Has(arg, "cryptographic_algorithm") =>
                   kb.cryptographic_algorithm.value = arg.items["cryptographic_algorithm"]
            /\ Has(arg, "cryptographic_length") =>
                   kb.cryptographic_length.value = arg.items["cryptographic_length"]
            /\ ~Has(arg, "key_compression_type") => kb.key_compression_type = None
            /\ ~Has(arg, "cryptographic_algorithm") => kb.cryptographic_algorithm = None
            /\ ~Has(arg, "cryptographic_length") => kb.cryptographic_length = None

\* the wrapping config of the call, None when the config has none
WrapArg == IF IsDict(arg) THEN Get(arg, "key_wrapping_data") ELSE None

\* the fields read before the wrapping config are accepted
KeyFieldsAccepted ==
    /\ IsDict(arg)
    /\ TypeOf(Get(arg, "key_format_type")) = "KeyFormatTypeEnum"
    /\ TypeOf(Get(arg, "key_compression_type")) \in {"NoneType", "KeyCompressionTypeEnum"}
    /\ Has(arg, "key_value")
    /\ TypeOf(Get(arg, "cryptographic_algorithm")) \in {"NoneType", "CryptographicAlgorithmEnum"}
    /\ secret_type = ObjectType("SECRET_DATA") =>
           TypeOf(Get(arg, "secret_data_type")) = "SecretDataTypeEnum"

KeyConfigGiven ==
    /\ IsDict(arg)
    /\ \/ secret_type \in KeyKinds
       \/ secret_type = ObjectType("SECRET_DATA") /\ Truthy(arg)

====
